---- MODULE Spec2Model ----
(***************************************************************************)
(* Model of promptify's Prompter (promptify/prompter/nlp_prompter.py):     *)
(* construction, update_default_variable_values, generate_prompt and fit,  *)
(* together with the collaborators fit drives (template loader, prompt     *)
(* cache, model client, conversation logger).                              *)
(*                                                                         *)
(* Python values are modelled as follows.  A dict is a function whose      *)
(* DOMAIN is its key set; strings are TLA+ strings; None is the string     *)
(* "None"; a rendered prompt is the string the template pieces add up to.  *)
(* Dict objects that can be aliased (default_variable_values) live in a    *)
(* heap, `dicts`, and are referred to by object identity.                  *)
(***************************************************************************)
EXTENDS Integers, Sequences, FiniteSets, TLC

VARIABLES
    live,                       \* the Prompter instances that were constructed
    dicts,                      \* heap: dict object -> its contents
    default_variable_values,    \* self.default_variable_values (a reference into dicts)
    allowed_missing_variables,  \* self.allowed_missing_variables
    ctor_allowed,               \* the allowed_missing_variables argument of __init__
    max_completion_length,      \* self.max_completion_length
    cache_prompt,               \* self.cache_prompt
    prompt_cache,               \* self.prompt_cache (entries, least recently used first)
    loaded_templates,           \* self.template_loader.loaded_templates
    cache_uses,                 \* history of the prompts used (added or hit) in the cache
    logger,                     \* messages appended through self.logger.add_message
    model_invocations,          \* number of self.model.execute_with_retry calls
    fit_returned,               \* number of fit calls that returned to the caller
    calls,                      \* number of method calls made so far
    rendered,                   \* what generate_prompt returned per request since the last update
    thread,                     \* the fit calls in progress, stage by stage
    last                        \* what the most recent call did

vars == << live, dicts, default_variable_values, allowed_missing_variables,
           ctor_allowed, max_completion_length, cache_prompt, prompt_cache,
           loaded_templates, cache_uses, logger,
           model_invocations, fit_returned, calls, rendered, thread, last >>

(***************************************************************************)
(* Bounds of the model.                                                    *)
(***************************************************************************)
MaxCalls == 3        \* method calls per behaviour with one Prompter
MaxCallsTwo == 1     \* method calls per behaviour with two Prompters
CacheSize == 2       \* cache_size passed to the constructor
MaxPuts == 4         \* cache operations per behaviour of the cache specification
MaxThreadCalls == 3  \* fit calls started per behaviour of the concurrent specification
CompletionLength == 2   \* max_completion_length passed to the constructor

(***************************************************************************)
(* Python values.                                                          *)
(***************************************************************************)
None == "None"
EmptyDict == << >>
NoArg == "<no argument>"

DictUpdate(d, e) ==
    [k \in (DOMAIN d) \cup (DOMAIN e) |-> IF k \in DOMAIN e THEN e[k] ELSE d[k]]

DictGet(d, k, dflt) == IF k \in DOMAIN d THEN d[k] ELSE dflt

DictSet(d, k, v) == [x \in (DOMAIN d) \cup {k} |-> IF x = k THEN v ELSE d[x]]

Min(a, b) == IF a < b THEN a ELSE b

(***************************************************************************)
(* Universe of inputs.                                                     *)
(***************************************************************************)
PrompterIds == {"p1", "p2"}
CallerDict == "d1"                       \* a dict object owned by the caller
OwnDict(p) == IF p = "p1" THEN "own1" ELSE "own2"   \* the {} made by `or {}`
DictObjects == {CallerDict, "own1", "own2"}

BaselineAllowed == {"examples", "description", "output_format"}

TextInputs == {"hi"}
KwChoices == { EmptyDict,
               [domain |-> "x"],
               [domain |-> "x", labels |-> "x"] }
DefaultChoices == { [domain |-> "y"], [labels |-> "z"] }
CtorDefaults == { EmptyDict, [domain |-> "y"] }
\* allowed_missing_variables argument: not given (None), [] or ["labels"]
CtorAllowed == { [given |-> FALSE, names |-> << >>],
                 [given |-> TRUE,  names |-> << >>],
                 [given |-> TRUE,  names |-> <<"labels">>] }

\* Template identifiers a caller passes.
FileTemplate == "ner.jinja"
InlineTemplate == "Say {{ domain }}"
FailingTemplate == "{{ 1/0 }}"
TemplateIds == {FileTemplate, InlineTemplate, FailingTemplate}

\* Pieces of a template body.
Lit(s) == [kind |-> "lit", arg |-> s]
Var(v) == [kind |-> "var", arg |-> v]
Boom == [kind |-> "raise", arg |-> "ZeroDivisionError"]

(***************************************************************************)
(* Template loader (template_loader.TemplateLoader).  load_template keeps  *)
(* one resolution per identifier; an inline template (from_string) is      *)
(* built without an environment, a path template with one.                 *)
(***************************************************************************)
FileExists(template) == template = FileTemplate

FileBody(template) ==
    << Lit(" "), Lit("Tag"), Lit(" "), Var("text_input"), Var("domain"),
       Var("labels"), Var("examples"), Lit(" ") >>

\* jinja2.Template(text): the parse of the identifier's own text.
InlineBody(template) ==
    CASE template = InlineTemplate  -> << Lit("Say"), Lit(" "), Var("domain") >>
      [] template = FailingTemplate -> << Boom >>
      [] OTHER                      -> << Lit(template) >>

LoadTemplate(lt, template, from_string) ==
    IF template \in DOMAIN lt
    THEN [ok |-> TRUE, data |-> lt[template], loaded |-> lt]
    ELSE IF from_string
    THEN LET data == [template_name |-> "from_string", environment |-> FALSE,
                      body |-> InlineBody(template)]
         IN  [ok |-> TRUE, data |-> data, loaded |-> DictSet(lt, template, data)]
    ELSE IF FileExists(template)
    THEN LET data == [template_name |-> template, environment |-> TRUE,
                      body |-> FileBody(template)]
         IN  [ok |-> TRUE, data |-> data, loaded |-> DictSet(lt, template, data)]
    ELSE [ok |-> FALSE,
          data |-> [template_name |-> template, environment |-> FALSE, body |-> << >>],
          loaded |-> lt]

\* meta.find_undeclared_variables on the template's source.
GetTemplateVariables(data) ==
    { data.body[i].arg : i \in { j \in DOMAIN data.body : data.body[j].kind = "var" } }

(***************************************************************************)
(* Rendering (jinja2 Template.render followed by str.strip).  A variable   *)
(* that is not in the context renders as the empty string, None renders    *)
(* as "None".                                                              *)
(***************************************************************************)
RenderRaises(body) == \E i \in DOMAIN body : body[i].kind = "raise"

Piece(seg, context) ==
    IF seg.kind = "lit" THEN seg.arg
    ELSE IF seg.arg \in DOMAIN context THEN context[seg.arg]
    ELSE ""

IsSpace(s) == s = " " \/ s = ""

RECURSIVE LStrip(_)
LStrip(ps) ==
    IF ps = << >> THEN << >>
    ELSE IF IsSpace(Head(ps)) THEN LStrip(Tail(ps))
    ELSE ps

RECURSIVE RStrip(_)
RStrip(ps) ==
    IF ps = << >> THEN << >>
    ELSE IF IsSpace(ps[Len(ps)]) THEN RStrip(SubSeq(ps, 1, Len(ps) - 1))
    ELSE ps

RECURSIVE Concat(_)
Concat(ps) == IF ps = << >> THEN "" ELSE Head(ps) \o Concat(Tail(ps))

Render(body, context) ==
    Concat(RStrip(LStrip([i \in DOMAIN body |-> Piece(body[i], context)])))

(***************************************************************************)
(* Prompter.generate_prompt                                                *)
(***************************************************************************)
VariablesMissing(variables, kwargs, allowed, defaults) ==
    { v \in variables : /\ v \notin DOMAIN kwargs
                        /\ v \notin allowed
                        /\ v \notin DOMAIN defaults }

VariablesDict(variables, kwargs) ==
    [v \in variables |-> DictGet(kwargs, v, None)]

RenderContext(kwargs, defaults) == DictUpdate(kwargs, defaults)

\* kwargs.update(defaults) written the other way round
DefaultsAfterRenderSwapped(defaults, kwargs) == DictUpdate(defaults, kwargs)

\* Line 174 updates the call's own kwargs; the defaults are only read.
DefaultsAfterRender(defaults, kwargs) == defaults

NoPrompt == [status |-> "error", error |-> "", missing |-> {}, prompt |-> "",
             variables_dict |-> EmptyDict, context |-> EmptyDict,
             validated |-> FALSE, loaded |-> EmptyDict, defaults |-> EmptyDict]

GeneratePrompt(lt, defaults, allowed, template, text_input, callkw) ==
    LET loader == LoadTemplate(lt, template,
                               DictGet(callkw, "from_string", "False") = "True")
        kwargs == DictSet(callkw, "text_input", text_input)
        variables == GetTemplateVariables(loader.data)
        missing == IF loader.data.environment
                   THEN VariablesMissing(variables, kwargs, allowed, defaults)
                   ELSE {}
        variables_dict == IF loader.data.environment
                          THEN VariablesDict(variables, kwargs)
                          ELSE [data |-> None]
        context == RenderContext(kwargs, defaults)
    IN  IF ~loader.ok
        THEN [NoPrompt EXCEPT !.error = "TemplateNotFound", !.loaded = loader.loaded,
                              !.defaults = defaults]
        ELSE IF missing # {}
        THEN [NoPrompt EXCEPT !.error = "MissingVariables", !.missing = missing,
                              !.validated = TRUE, !.loaded = loader.loaded,
                              !.defaults = defaults]
        ELSE IF RenderRaises(loader.data.body)
        THEN [NoPrompt EXCEPT !.error = "TemplateRender",
                              !.validated = loader.data.environment,
                              !.loaded = loader.loaded,
                              !.defaults = DefaultsAfterRender(defaults, kwargs)]
        ELSE [status |-> "ok", error |-> "", missing |-> {},
              prompt |-> Render(loader.data.body, context),
              variables_dict |-> variables_dict, context |-> context,
              validated |-> loader.data.environment, loaded |-> loader.loaded,
              defaults |-> DefaultsAfterRender(defaults, kwargs)]

(***************************************************************************)
(* Prompt cache (prompt_cache.PromptCache): a bounded map from prompt to   *)
(* outputs, kept as a sequence of entries, least recently used first.      *)
(***************************************************************************)
CacheKeys(c) == { c[i].key : i \in DOMAIN c }

CacheValue(c, k) == c[CHOOSE i \in DOMAIN c : c[i].key = k].value

CacheWithout(c, k) == SelectSeq(c, LAMBDA e : e.key # k)

\* a get that does not count as a use
CacheGetNoTouch(c, k) ==
    IF k \in CacheKeys(c)
    THEN [hit |-> TRUE, value |-> CacheValue(c, k), cache |-> c]
    ELSE [hit |-> FALSE, value |-> << >>, cache |-> c]

CacheGet(c, k) ==
    IF k \in CacheKeys(c)
    THEN [hit |-> TRUE, value |-> CacheValue(c, k),
          cache |-> Append(CacheWithout(c, k), [key |-> k, value |-> CacheValue(c, k)])]
    ELSE [hit |-> FALSE, value |-> << >>, cache |-> c]

CacheAdd(c, size, k, v) ==
    IF k \in CacheKeys(c)
    THEN Append(CacheWithout(c, k), [key |-> k, value |-> v])
    ELSE IF Len(c) >= size
    THEN Append(Tail(c), [key |-> k, value |-> v])
    ELSE Append(c, [key |-> k, value |-> v])

\* `if output:` -- None (a miss) and the empty list are both false.
Truthy(got) == got.hit /\ got.value # << >>

(***************************************************************************)
(* Model client: execute_with_retry returns a list of raw responses or     *)
(* raises; model_output shapes one raw response.                           *)
(***************************************************************************)
R1 == << "a", "b", "c" >>
R2 == << "d" >>
Garbled == << "?" >>

ModelResponses ==
    { [raises |-> TRUE,  raw |-> << >>],
      [raises |-> FALSE, raw |-> << >>],
      [raises |-> FALSE, raw |-> << R2, R1 >>],
      [raises |-> FALSE, raw |-> << Garbled >>] }

ModelOutputRaises(raw) == raw = Garbled

ModelOutput(raw, max_len) ==
    [text |-> raw,
     parsed |-> [data |-> [completion |-> SubSeq(raw, 1, Min(Len(raw), max_len))]]]

\* create_message(template, prompt, text, completion, **variables_dict)
CreateMessage(template, prompt, text, completion, variables_dict) ==
    [template |-> template, prompt |-> prompt, text |-> text,
     completion |-> completion, variables |-> variables_dict]

(***************************************************************************)
(* Prompter.__init__                                                       *)
(***************************************************************************)
SeqToSet(q) == { q[i] : i \in DOMAIN q }

\* `allowed_missing_variables or [baseline]`: a given list replaces the baseline
InitAllowedMissingOverride(arg) ==
    IF arg.given /\ arg.names # << >> THEN SeqToSet(arg.names) ELSE BaselineAllowed

InitAllowedMissing(arg) ==
    BaselineAllowed \cup (IF arg.given THEN SeqToSet(arg.names) ELSE {})

\* `default_variable_values or {}`: the caller's dict object itself unless
\* it is missing or empty, in which case a new dict is made.
InitDefaultRef(p, arg, heap) ==
    IF arg = NoArg THEN OwnDict(p)
    ELSE IF DOMAIN heap[arg] = {} THEN OwnDict(p)
    ELSE arg

NoCall == [op |-> "init", p |-> "", status |-> "ok", error |-> "", template |-> "",
           callkw |-> EmptyDict, text_input |-> "", prompt |-> "",
           context |-> EmptyDict, variables_dict |-> EmptyDict, missing |-> {},
           validated |-> FALSE, outputs |-> << >>, from_cache |-> FALSE,
           invoked |-> 0, cache_read |-> FALSE, cache_written |-> FALSE,
           again |-> FALSE]

NoThreads == << >>

InitFor(L, DefaultArgs, AllowedArgs, CacheFlags) ==
    /\ live = L
    /\ \E d \in CtorDefaults :
          dicts = [o \in DictObjects |-> IF o = CallerDict THEN d ELSE EmptyDict]
    /\ \E arg \in DefaultArgs :
          default_variable_values = [p \in L |-> InitDefaultRef(p, arg[p], dicts)]
    /\ ctor_allowed \in AllowedArgs
    /\ allowed_missing_variables = [p \in L |-> InitAllowedMissing(ctor_allowed[p])]
    /\ max_completion_length = [p \in L |-> CompletionLength]
    /\ cache_prompt \in CacheFlags
    /\ prompt_cache = [p \in L |-> << >>]
    /\ loaded_templates = [p \in L |-> EmptyDict]
    /\ cache_uses = [p \in L |-> << >>]
    /\ logger = [p \in L |-> << >>]
    /\ model_invocations = [p \in L |-> 0]
    /\ fit_returned = [p \in L |-> 0]
    /\ calls = 0
    /\ rendered = [p \in L |-> EmptyDict]
    /\ last = NoCall

\* One Prompter, constructed with the caller's dict (empty or not), any of
\* the allowed-missing arguments, caching on or off.
Init ==
    /\ InitFor({"p1"}, [{"p1"} -> {CallerDict}], [{"p1"} -> CtorAllowed],
               [{"p1"} -> BOOLEAN])
    /\ thread = NoThreads

\* Two Prompters; each is given the caller's dict or no defaults at all.
InitTwo ==
    /\ InitFor(PrompterIds, [PrompterIds -> {NoArg, CallerDict}],
               { [p \in PrompterIds |-> IF p = "p1"
                                        THEN [given |-> TRUE, names |-> <<"labels">>]
                                        ELSE [given |-> FALSE, names |-> << >>]] },
               { [p \in PrompterIds |-> p = "p1"] })
    /\ thread = NoThreads

Budget == IF Cardinality(live) = 1 THEN MaxCalls ELSE MaxCallsTwo

Defaults(p) == dicts[default_variable_values[p]]

(***************************************************************************)
(* Prompter.update_default_variable_values                                 *)
(***************************************************************************)
\* an update that replaces the mapping instead of merging into it
UpdatedDefaultsReplaced(defaults, new_defaults) == new_defaults

UpdatedDefaults(defaults, new_defaults) == DictUpdate(defaults, new_defaults)

RequestKey(template, text_input, callkw) ==
    [template |-> template, text_input |-> text_input, callkw |-> callkw]

UpdateDefaultVariableValues(p, new_defaults) ==
    /\ calls < Budget
    /\ dicts' = [dicts EXCEPT
                    ![default_variable_values[p]] = UpdatedDefaults(@, new_defaults)]
    /\ rendered' = [q \in live |-> EmptyDict]
    /\ calls' = calls + 1
    /\ last' = [NoCall EXCEPT !.op = "update_default_variable_values", !.p = p,
                              !.context = new_defaults]
    /\ UNCHANGED << live, default_variable_values, allowed_missing_variables,
                    ctor_allowed, max_completion_length, cache_prompt, prompt_cache,
                    loaded_templates, cache_uses, logger, model_invocations,
                    fit_returned, thread >>

(***************************************************************************)
(* Prompter.generate_prompt as a call of its own                           *)
(***************************************************************************)
CallKw(kw, from_string) ==
    IF from_string THEN DictSet(kw, "from_string", "True") ELSE kw

\* The calls made: the path template with each choice of keyword arguments,
\* the inline templates as strings, and an inline text passed as a path.
Requests ==
    { [template |-> FileTemplate, callkw |-> kw] : kw \in KwChoices }
    \cup { [template |-> InlineTemplate, callkw |-> CallKw(kw, TRUE)] :
               kw \in { EmptyDict, [domain |-> "x"] } }
    \cup { [template |-> InlineTemplate, callkw |-> EmptyDict],
            [template |-> FailingTemplate, callkw |-> CallKw(EmptyDict, TRUE)] }

GeneratePromptCall(p, template, text_input, callkw) ==
    LET g == GeneratePrompt(loaded_templates[p], Defaults(p),
                            allowed_missing_variables[p], template, text_input, callkw)
        key == RequestKey(template, text_input, callkw)
    IN  /\ calls < Budget
        /\ loaded_templates' = [loaded_templates EXCEPT ![p] = g.loaded]
        /\ dicts' = [dicts EXCEPT ![default_variable_values[p]] = g.defaults]
        /\ rendered' = [rendered EXCEPT
                           ![p] = IF g.status = "ok" THEN DictSet(@, key, g.prompt) ELSE @]
        /\ calls' = calls + 1
        /\ last' = [NoCall EXCEPT !.op = "generate_prompt", !.p = p,
                                  !.again = key \in DOMAIN rendered[p],
                                  !.status = g.status, !.error = g.error,
                                  !.template = template, !.callkw = callkw,
                                  !.text_input = text_input, !.prompt = g.prompt,
                                  !.context = g.context,
                                  !.variables_dict = g.variables_dict,
                                  !.missing = g.missing, !.validated = g.validated]
        /\ UNCHANGED << live, default_variable_values,
                        allowed_missing_variables, ctor_allowed,
                        max_completion_length, cache_prompt, prompt_cache,
                        cache_uses, logger, model_invocations, fit_returned,
                        thread >>

(***************************************************************************)
(* Prompter.fit                                                            *)
(***************************************************************************)
\* fit with the cache consulted whatever the flag says
CacheEnabledAlways(flag) == TRUE

CacheEnabled(flag) == flag

\* fit calling the model client again after it raised
InvocationsWithRetry(response) == IF response.raises THEN 2 ELSE 1

Invocations(response) == 1

Outputs(response, max_len) ==
    [i \in DOMAIN response.raw |-> ModelOutput(response.raw[i], max_len)]

NormalizeRaises(response) ==
    \E i \in DOMAIN response.raw : ModelOutputRaises(response.raw[i])

\* only the first output cached
CacheStoredFirst(cache, size, prompt, outputs) ==
    CacheAdd(cache, size, prompt, SubSeq(outputs, 1, Min(1, Len(outputs))))

\* self.prompt_cache.add(prompt, outputs)
CacheStored(cache, size, prompt, outputs) == CacheAdd(cache, size, prompt, outputs)

\* a message appended for the first output and again for the whole call
LoggedMessagesTwice(template, prompt, outputs, variables_dict) ==
    << CreateMessage(template, prompt, outputs[1].text,
                     outputs[1].parsed.data.completion, variables_dict),
       CreateMessage(template, prompt, outputs[1].text,
                     outputs[1].parsed.data.completion, variables_dict) >>

\* create_message(...) and self.logger.add_message(message)
LoggedMessages(template, prompt, outputs, variables_dict) ==
    << CreateMessage(template, prompt, outputs[1].text,
                     outputs[1].parsed.data.completion, variables_dict) >>

NoFit == [status |-> "error", error |-> "", outputs |-> << >>, cache |-> << >>,
          uses |-> << >>, messages |-> << >>, invoked |-> 0, from_cache |-> FALSE,
          cache_read |-> FALSE, cache_written |-> FALSE]

\* What fit does after generate_prompt returned g (lines 201-225).
FitOutcome(flag, cache, size, max_len, template, g, response) ==
    LET use_cache == CacheEnabled(flag)
        got == IF use_cache THEN CacheGet(cache, g.prompt)
               ELSE [hit |-> FALSE, value |-> << >>, cache |-> cache]
        read_use == IF got.hit THEN << g.prompt >> ELSE << >>
        outputs == Outputs(response, max_len)
        stored == IF use_cache THEN CacheStored(got.cache, size, g.prompt, outputs)
                  ELSE got.cache
        add_use == IF use_cache THEN << g.prompt >> ELSE << >>
        looked == [NoFit EXCEPT !.cache = got.cache, !.uses = read_use,
                                !.cache_read = use_cache]
    IN  IF g.status = "error"
        THEN [NoFit EXCEPT !.error = g.error, !.cache = cache]
        ELSE IF use_cache /\ Truthy(got)
        THEN [looked EXCEPT !.status = "ok", !.outputs = got.value,
                            !.from_cache = TRUE]
        ELSE IF response.raises
        THEN [looked EXCEPT !.error = "ModelInvocation",
                            !.invoked = Invocations(response)]
        ELSE IF NormalizeRaises(response)
        THEN [looked EXCEPT !.error = "ModelOutput",
                            !.invoked = Invocations(response)]
        ELSE IF outputs = << >>
        THEN [looked EXCEPT !.error = "IndexError", !.cache = stored,
                            !.uses = read_use \o add_use,
                            !.cache_written = use_cache,
                            !.invoked = Invocations(response)]
        ELSE [looked EXCEPT !.status = "ok", !.outputs = outputs,
                            !.cache = stored, !.uses = read_use \o add_use,
                            !.cache_written = use_cache,
                            !.invoked = Invocations(response),
                            !.messages = LoggedMessages(template, g.prompt, outputs,
                                                        g.variables_dict)]

Fit(p, template, text_input, callkw, response) ==
    LET g == GeneratePrompt(loaded_templates[p], Defaults(p),
                            allowed_missing_variables[p], template, text_input, callkw)
        f == FitOutcome(cache_prompt[p], prompt_cache[p], CacheSize,
                        max_completion_length[p], template, g, response)
        key == RequestKey(template, text_input, callkw)
    IN  /\ calls < Budget
        /\ loaded_templates' = [loaded_templates EXCEPT ![p] = g.loaded]
        /\ dicts' = [dicts EXCEPT ![default_variable_values[p]] = g.defaults]
        /\ prompt_cache' = [prompt_cache EXCEPT ![p] = f.cache]
        /\ cache_uses' = [cache_uses EXCEPT ![p] = @ \o f.uses]
        /\ logger' = [logger EXCEPT ![p] = @ \o f.messages]
        /\ model_invocations' = [model_invocations EXCEPT ![p] = @ + f.invoked]
        /\ fit_returned' = [fit_returned EXCEPT
                               ![p] = IF f.status = "ok" THEN @ + 1 ELSE @]
        /\ calls' = calls + 1
        /\ last' = [op |-> "fit", p |-> p, status |-> f.status, error |-> f.error,
                    template |-> template, callkw |-> callkw,
                    text_input |-> text_input, prompt |-> g.prompt,
                    context |-> g.context, variables_dict |-> g.variables_dict,
                    missing |-> g.missing, validated |-> g.validated,
                    outputs |-> f.outputs, from_cache |-> f.from_cache,
                    invoked |-> f.invoked, cache_read |-> f.cache_read,
                    cache_written |-> f.cache_written,
                    again |-> key \in DOMAIN rendered[p]]
        /\ UNCHANGED << live, default_variable_values,
                        allowed_missing_variables, ctor_allowed,
                        max_completion_length, cache_prompt, rendered, thread >>

\* The answers the model client can give in this call: none is asked for
\* when the call fails before, or is served without, the model.
ModelAnswers(p, template, text_input, callkw) ==
    LET g == GeneratePrompt(loaded_templates[p], Defaults(p),
                            allowed_missing_variables[p], template, text_input, callkw)
    IN  IF \/ g.status = "error"
           \/ /\ CacheEnabled(cache_prompt[p])
              /\ Truthy(CacheGet(prompt_cache[p], g.prompt))
        THEN { [raises |-> TRUE, raw |-> << >>] }
        ELSE ModelResponses

Next ==
    \/ \E p \in live, d \in DefaultChoices : UpdateDefaultVariableValues(p, d)
    \/ \E p \in live, q \in Requests, x \in TextInputs :
          GeneratePromptCall(p, q.template, x, q.callkw)
    \/ \E p \in live, q \in Requests, x \in TextInputs :
          \E r \in ModelAnswers(p, q.template, x, q.callkw) :
              Fit(p, q.template, x, q.callkw, r)

Spec == Init /\ [][Next]_vars

SpecTwo == InitTwo /\ [][Next]_vars


(***************************************************************************)
(* The prompt cache driven on its own: add and get with arbitrary prompts. *)
(***************************************************************************)
CachePrompts == {"a", "b", "c", "d"}

OutputsFor(k) == << ModelOutput(<< k >>, CompletionLength) >>

CacheAddOp(p, k) ==
    /\ calls < MaxPuts
    /\ prompt_cache' = [prompt_cache EXCEPT ![p] = CacheAdd(@, CacheSize, k, OutputsFor(k))]
    /\ cache_uses' = [cache_uses EXCEPT ![p] = Append(@, k)]
    /\ calls' = calls + 1
    /\ last' = [NoCall EXCEPT !.op = "cache.add", !.p = p, !.prompt = k,
                              !.outputs = OutputsFor(k), !.cache_written = TRUE]
    /\ UNCHANGED << live, dicts, default_variable_values, allowed_missing_variables,
                    ctor_allowed, max_completion_length, cache_prompt,
                    loaded_templates, logger, model_invocations, fit_returned,
                    rendered, thread >>

CacheGetOp(p, k) ==
    LET got == CacheGet(prompt_cache[p], k)
    IN  /\ calls < MaxPuts
        /\ prompt_cache' = [prompt_cache EXCEPT ![p] = got.cache]
        /\ cache_uses' = [cache_uses EXCEPT ![p] = IF got.hit THEN Append(@, k) ELSE @]
        /\ calls' = calls + 1
        /\ last' = [NoCall EXCEPT !.op = "cache.get", !.p = p, !.prompt = k,
                                  !.outputs = got.value, !.from_cache = got.hit,
                                  !.cache_read = TRUE]
        /\ UNCHANGED << live, dicts, default_variable_values,
                        allowed_missing_variables, ctor_allowed,
                        max_completion_length, cache_prompt, loaded_templates,
                        logger, model_invocations, fit_returned, rendered, thread >>

InitCache ==
    /\ InitFor({"p1"}, [{"p1"} -> {NoArg}],
               [{"p1"} -> {[given |-> FALSE, names |-> << >>]}], [{"p1"} -> {TRUE}])
    /\ thread = NoThreads

NextCache ==
    \/ \E k \in CachePrompts : CacheAddOp("p1", k)
    \/ \E k \in CachePrompts : CacheGetOp("p1", k)

SpecCache == InitCache /\ [][NextCache]_vars

(***************************************************************************)
(* fit stage by stage, so that several calls on one Prompter interleave.   *)
(* Each statement of fit is one step; generate_prompt (line 195), one      *)
(* cache operation and one logger append are each taken as a whole.        *)
(***************************************************************************)
Threads == {"t1", "t2"}

Shared == "p1"

IdleThread == [pc |-> "idle", template |-> "", prompt |-> "",
               variables_dict |-> EmptyDict, raw |-> << >>, outputs |-> << >>,
               result |-> << >>, trace |-> << >>, live_done |-> 0, made |-> {}]

ThreadRequests ==
    { [template |-> FileTemplate, callkw |-> [domain |-> "x", labels |-> "x"]],
      [template |-> InlineTemplate, callkw |-> CallKw([domain |-> "x"], TRUE)],
      [template |-> FailingTemplate, callkw |-> CallKw(EmptyDict, TRUE)] }

\* the model may answer two calls on one prompt differently
ThreadResponses == ModelResponses \cup { [raises |-> FALSE, raw |-> << R1 >>] }

\* store and log in the other order
StageAfterLogFirst(stage, use_cache) ==
    CASE stage = "render"    -> IF use_cache THEN "lookup" ELSE "model"
      [] stage = "lookup"    -> "model"
      [] stage = "model"     -> "normalize"
      [] stage = "normalize" -> "log"
      [] stage = "log"       -> IF use_cache THEN "store" ELSE "return"
      [] stage = "store"     -> "return"
      [] OTHER               -> "done"

\* The statement fit goes to after a stage that neither failed nor
\* returned (lines 201, 206, 207, 214, 217-224, 225).
StageAfter(stage, use_cache) ==
    CASE stage = "render"    -> IF use_cache THEN "lookup" ELSE "model"
      [] stage = "lookup"    -> "model"
      [] stage = "model"     -> "normalize"
      [] stage = "normalize" -> IF use_cache THEN "store" ELSE "log"
      [] stage = "store"     -> "log"
      [] stage = "log"       -> "return"
      [] OTHER               -> "done"

Stage(name) == [NoCall EXCEPT !.op = name, !.p = Shared]

UseCache == CacheEnabled(cache_prompt[Shared])

\* line 195
ThreadRender(t, template, text_input, callkw) ==
    LET g == GeneratePrompt(loaded_templates[Shared], Defaults(Shared),
                            allowed_missing_variables[Shared], template,
                            text_input, callkw)
    IN  /\ thread[t].pc \in {"idle", "done", "failed"}
        /\ calls < MaxThreadCalls
        /\ calls' = calls + 1
        /\ loaded_templates' = [loaded_templates EXCEPT ![Shared] = g.loaded]
        /\ dicts' = [dicts EXCEPT ![default_variable_values[Shared]] = g.defaults]
        /\ thread' = [thread EXCEPT
              ![t] = [@ EXCEPT
                 !.pc = IF g.status = "ok" THEN StageAfter("render", UseCache)
                        ELSE "failed",
                 !.template = template, !.prompt = g.prompt,
                 !.variables_dict = g.variables_dict,
                 !.raw = << >>, !.outputs = << >>, !.result = << >>,
                 !.trace = IF g.status = "ok" THEN << "render" >> ELSE << >>]]
        /\ last' = Stage("render")
        /\ UNCHANGED << live, default_variable_values, allowed_missing_variables,
                        ctor_allowed, max_completion_length, cache_prompt,
                        prompt_cache, cache_uses, logger, model_invocations,
                        fit_returned, rendered >>

\* lines 201-204
ThreadLookup(t) ==
    LET got == CacheGet(prompt_cache[Shared], thread[t].prompt)
    IN  /\ thread[t].pc = "lookup"
        /\ prompt_cache' = [prompt_cache EXCEPT ![Shared] = got.cache]
        /\ cache_uses' = [cache_uses EXCEPT
                             ![Shared] = IF got.hit THEN Append(@, thread[t].prompt) ELSE @]
        /\ fit_returned' = [fit_returned EXCEPT
                               ![Shared] = IF Truthy(got) THEN @ + 1 ELSE @]
        /\ thread' = [thread EXCEPT
              ![t] = [@ EXCEPT
                 !.pc = IF Truthy(got) THEN "done" ELSE StageAfter("lookup", UseCache),
                 !.result = IF Truthy(got) THEN got.value ELSE << >>,
                 !.trace = Append(@, "lookup")]]
        /\ last' = Stage("lookup")
        /\ UNCHANGED << live, dicts, default_variable_values,
                        allowed_missing_variables, ctor_allowed,
                        max_completion_length, cache_prompt, loaded_templates,
                        logger, model_invocations, calls, rendered >>

\* line 206
ThreadModel(t, response) ==
    /\ thread[t].pc = "model"
    /\ model_invocations' = [model_invocations EXCEPT
                                ![Shared] = @ + Invocations(response)]
    /\ thread' = [thread EXCEPT
          ![t] = [@ EXCEPT
             !.pc = IF response.raises THEN "failed" ELSE StageAfter("model", UseCache),
             !.raw = response.raw,
             !.trace = IF response.raises THEN @ ELSE Append(@, "model")]]
    /\ last' = Stage("model")
    /\ UNCHANGED << live, dicts, default_variable_values, allowed_missing_variables,
                    ctor_allowed, max_completion_length, cache_prompt, prompt_cache,
                    loaded_templates, cache_uses, logger, fit_returned, calls,
                    rendered >>

\* lines 207-212
ThreadNormalize(t) ==
    LET response == [raises |-> FALSE, raw |-> thread[t].raw]
        outputs == Outputs(response, max_completion_length[Shared])
        fails == NormalizeRaises(response)
    IN  /\ thread[t].pc = "normalize"
        /\ thread' = [thread EXCEPT
              ![t] = [@ EXCEPT
                 !.pc = IF fails THEN "failed" ELSE StageAfter("normalize", UseCache),
                 !.outputs = IF fails THEN << >> ELSE outputs,
                 !.made = IF fails THEN @
                          ELSE @ \cup {[prompt |-> thread[t].prompt,
                                        outputs |-> outputs]},
                 !.trace = IF fails THEN @ ELSE Append(@, "normalize")]]
        /\ last' = Stage("normalize")
        /\ UNCHANGED << live, dicts, default_variable_values,
                        allowed_missing_variables, ctor_allowed,
                        max_completion_length, cache_prompt, prompt_cache,
                        loaded_templates, cache_uses, logger, model_invocations,
                        fit_returned, calls, rendered >>

\* lines 214-215
ThreadStore(t) ==
    /\ thread[t].pc = "store"
    /\ prompt_cache' = [prompt_cache EXCEPT
                           ![Shared] = CacheStored(@, CacheSize, thread[t].prompt,
                                                   thread[t].outputs)]
    /\ cache_uses' = [cache_uses EXCEPT ![Shared] = Append(@, thread[t].prompt)]
    /\ thread' = [thread EXCEPT
          ![t] = [@ EXCEPT !.pc = StageAfter("store", UseCache),
                           !.trace = Append(@, "store")]]
    /\ last' = Stage("store")
    /\ UNCHANGED << live, dicts, default_variable_values, allowed_missing_variables,
                    ctor_allowed, max_completion_length, cache_prompt,
                    loaded_templates, logger, model_invocations, fit_returned,
                    calls, rendered >>

\* lines 217-224
ThreadLog(t) ==
    LET fails == thread[t].outputs = << >>
    IN  /\ thread[t].pc = "log"
        /\ logger' = [logger EXCEPT
              ![Shared] = IF fails THEN @
                          ELSE @ \o LoggedMessages(thread[t].template, thread[t].prompt,
                                                   thread[t].outputs,
                                                   thread[t].variables_dict)]
        /\ thread' = [thread EXCEPT
              ![t] = [@ EXCEPT
                 !.pc = IF fails THEN "failed" ELSE StageAfter("log", UseCache),
                 !.trace = IF fails THEN @ ELSE Append(@, "log")]]
        /\ last' = Stage("log")
        /\ UNCHANGED << live, dicts, default_variable_values,
                        allowed_missing_variables, ctor_allowed,
                        max_completion_length, cache_prompt, prompt_cache,
                        loaded_templates, cache_uses, model_invocations,
                        fit_returned, calls, rendered >>

\* line 225
ThreadReturn(t) ==
    /\ thread[t].pc = "return"
    /\ fit_returned' = [fit_returned EXCEPT ![Shared] = @ + 1]
    /\ thread' = [thread EXCEPT
          ![t] = [@ EXCEPT !.pc = StageAfter("return", UseCache),
                           !.result = thread[t].outputs,
                           !.live_done = @ + 1,
                           !.trace = Append(@, "return")]]
    /\ last' = Stage("return")
    /\ UNCHANGED << live, dicts, default_variable_values, allowed_missing_variables,
                    ctor_allowed, max_completion_length, cache_prompt, prompt_cache,
                    loaded_templates, cache_uses, logger, model_invocations, calls,
                    rendered >>

InitThreads ==
    /\ InitFor({Shared}, [{Shared} -> {NoArg}],
               [{Shared} -> {[given |-> FALSE, names |-> << >>]}],
               [{Shared} -> BOOLEAN])
    /\ thread = [t \in Threads |-> IdleThread]

NextThreads ==
    \/ \E t \in Threads, q \in ThreadRequests, x \in TextInputs :
          ThreadRender(t, q.template, x, q.callkw)
    \/ \E t \in Threads : ThreadLookup(t)
    \/ \E t \in Threads, r \in ThreadResponses : ThreadModel(t, r)
    \/ \E t \in Threads : ThreadNormalize(t)
    \/ \E t \in Threads : ThreadStore(t)
    \/ \E t \in Threads : ThreadLog(t)
    \/ \E t \in Threads : ThreadReturn(t)

SpecThreads == InitThreads /\ [][NextThreads]_vars

(***************************************************************************)
(* Properties.                                                             *)
(***************************************************************************)
CacheMap(c) == [k \in CacheKeys(c) |-> CacheValue(c, k)]

FitStep == last'.op = "fit" /\ calls' = calls + 1

GenerateStep == last'.op \in {"fit", "generate_prompt"} /\ calls' = calls + 1

GenerateFailed(l) ==
    l.error \in {"TemplateNotFound", "MissingVariables", "TemplateRender"}

TemplateVars(p, template) ==
    IF template \in DOMAIN loaded_templates[p]
    THEN GetTemplateVariables(loaded_templates[p][template])
    ELSE {}

\* C1: the number of log messages equals the number of fit calls that
\* returned successfully (every successful fit, cache hit or live call,
\* appends exactly one message; a failed fit appends none).
C1_LogCountEqualsReturned ==
    \A p \in live : Len(logger[p]) = fit_returned[p]

\* C2: a fit call that fails at any stage leaves the entries of the prompt
\* cache and the conversation log exactly as they were before the call.
C2_FailedFitChangesNothing ==
    [][ (FitStep /\ last'.status = "error")
        => /\ CacheMap(prompt_cache'[last'.p]) = CacheMap(prompt_cache[last'.p])
           /\ logger' = logger ]_vars

\* C3: a template variable that has both a caller-supplied keyword value and
\* a configured default is rendered with the caller-supplied value.
C3_CallerValueWins ==
    (last.op \in {"fit", "generate_prompt"} /\ ~GenerateFailed(last))
    => \A v \in TemplateVars(last.p, last.template) :
          (v \in DOMAIN last.callkw /\ v \in DOMAIN Defaults(last.p))
          => last.context[v] = last.callkw[v]

\* C4: for every template and call, generate_prompt fails with the
\* missing-variables error exactly when some referenced variable is in none
\* of the caller's arguments, the defaults and the allowed-missing set, and
\* the error names exactly those variables.
Uncovered(l) ==
    { v \in TemplateVars(l.p, l.template) :
         /\ v \notin (DOMAIN l.callkw) \cup {"text_input"}
         /\ v \notin DOMAIN Defaults(l.p)
         /\ v \notin allowed_missing_variables[l.p] }

C4_MissingIffUncovered ==
    (last.op \in {"fit", "generate_prompt"} /\ last.error # "TemplateNotFound")
    => /\ (last.error = "MissingVariables") <=> (Uncovered(last) # {})
       /\ (last.error = "MissingVariables") => (last.missing = Uncovered(last))

\* C5: with caching enabled, whenever the cache holds an entry for the
\* rendered prompt (an empty list included), fit returns exactly that entry
\* and neither invokes the model nor writes the cache.
C5_StoredEntryIsReturned ==
    [][ ( /\ FitStep
          /\ ~GenerateFailed(last')
          /\ cache_prompt[last'.p]
          /\ last'.prompt \in CacheKeys(prompt_cache[last'.p]) )
        => /\ last'.status = "ok"
           /\ last'.outputs = CacheValue(prompt_cache[last'.p], last'.prompt)
           /\ last'.invoked = 0
           /\ ~last'.cache_written
           /\ CacheMap(prompt_cache'[last'.p]) = CacheMap(prompt_cache[last'.p]) ]_vars

\* C6: with caching disabled every successful fit invokes the model client
\* (so two identical consecutive calls make two invocations), and the prompt
\* cache is never read, never written and stays empty.
C6_NoCacheWhenDisabled ==
    /\ \A p \in live :
          ~cache_prompt[p]
          => /\ prompt_cache[p] = << >>
             /\ cache_uses[p] = << >>
             /\ fit_returned[p] <= model_invocations[p]
    /\ (last.op = "fit" /\ ~cache_prompt[last.p])
       => /\ ~last.cache_read
          /\ ~last.cache_written
          /\ ~last.from_cache
          /\ (last.status = "ok" => last.invoked = 1)

C6_Witness ==
    /\ last.op = "fit" /\ last.status = "ok"
    /\ ~cache_prompt[last.p]
    /\ fit_returned[last.p] = 2
    /\ model_invocations[last.p] = 2
    /\ Len(logger[last.p]) = 2
    /\ logger[last.p][1].prompt = logger[last.p][2].prompt

\* C7: when the model client raises, fit fails, the cache entries and the
\* log are untouched, and the model client was invoked once and not again;
\* no fit call invokes the model client more than once.
C7_ModelErrorSurfaced ==
    [][ FitStep
        => /\ model_invocations'[last'.p] <= model_invocations[last'.p] + 1
           /\ last'.invoked = model_invocations'[last'.p] - model_invocations[last'.p]
           /\ (last'.error = "ModelInvocation")
              => /\ last'.status = "error"
                 /\ last'.invoked = 1
                 /\ CacheMap(prompt_cache'[last'.p]) = CacheMap(prompt_cache[last'.p])
                 /\ logger' = logger
                 /\ fit_returned' = fit_returned ]_vars

C7_Witness ==
    /\ last.op = "fit" /\ last.error = "ModelInvocation"
    /\ cache_prompt[last.p]
    /\ prompt_cache[last.p] # << >>
    /\ logger[last.p] # << >>

\* C8: the cache never holds more than its capacity; an add of a new prompt
\* at capacity evicts exactly the least recently used entry, where an add
\* and a get hit both count as a use; every other entry keeps its value.
LastUse(h, k) == CHOOSE i \in DOMAIN h : h[i] = k /\ \A j \in DOMAIN h : h[j] = k => j <= i

FirstUse(h, k) == CHOOSE i \in DOMAIN h : h[i] = k /\ \A j \in DOMAIN h : h[j] = k => i <= j

LeastRecentlyUsed(c, h) ==
    CHOOSE k \in CacheKeys(c) : \A j \in CacheKeys(c) : LastUse(h, k) <= LastUse(h, j)

C8_LeastRecentlyUsedEvicted ==
    /\ [](\A p \in live : Len(prompt_cache[p]) <= CacheSize)
    /\ [][ (last'.op = "cache.add" /\ calls' = calls + 1)
           => LET c == prompt_cache[last'.p]
                  d == prompt_cache'[last'.p]
                  k == last'.prompt
              IN  /\ k \in CacheKeys(d)
                  /\ CacheValue(d, k) = last'.outputs
                  /\ \A j \in CacheKeys(d) \ {k} :
                        j \in CacheKeys(c) /\ CacheValue(d, j) = CacheValue(c, j)
                  /\ (k \in CacheKeys(c) \/ Len(c) < CacheSize)
                     => CacheKeys(d) = CacheKeys(c) \cup {k}
                  /\ (k \notin CacheKeys(c) /\ Len(c) >= CacheSize)
                     => CacheKeys(d) =
                          (CacheKeys(c) \ {LeastRecentlyUsed(c, cache_uses[last'.p])})
                          \cup {k} ]_vars
    /\ [][ (last'.op = "cache.get" /\ calls' = calls + 1)
           => /\ CacheMap(prompt_cache'[last'.p]) = CacheMap(prompt_cache[last'.p])
              /\ last'.from_cache = (last'.prompt \in CacheKeys(prompt_cache[last'.p]))
              /\ last'.from_cache
                 => last'.outputs = CacheValue(prompt_cache[last'.p], last'.prompt) ]_vars

\* An entry older than an evicted one is still there: a get protected it.
C8_Witness ==
    /\ last.op = "cache.add"
    /\ Len(prompt_cache["p1"]) = CacheSize
    /\ \E e \in SeqToSet(cache_uses["p1"]) \ CacheKeys(prompt_cache["p1"]) :
       \E k \in CacheKeys(prompt_cache["p1"]) :
          FirstUse(cache_uses["p1"], k) < FirstUse(cache_uses["p1"], e)

\* C9: whatever allowed-missing list was passed to the constructor, the
\* allowed-missing set holds examples, description and output_format and
\* every name the caller passed, after any sequence of calls.
C9_BaselineAlwaysAllowed ==
    \A p \in live :
       /\ BaselineAllowed \subseteq allowed_missing_variables[p]
       /\ ctor_allowed[p].given
          => SeqToSet(ctor_allowed[p].names) \subseteq allowed_missing_variables[p]

C9_Witness ==
    /\ ctor_allowed["p1"] = [given |-> TRUE, names |-> <<"labels">>]
    /\ last.op = "update_default_variable_values"
    /\ calls = 3
    /\ fit_returned["p1"] >= 1

\* C10: update_default_variable_values on one Prompter never changes the
\* default variable values or the allowed-missing set of another Prompter,
\* also when both were constructed from the same defaults mapping.
C10_InstancesIndependent ==
    [][ (last'.op = "update_default_variable_values" /\ calls' = calls + 1)
        => \A q \in live \ {last'.p} :
              /\ dicts'[default_variable_values'[q]] = dicts[default_variable_values[q]]
              /\ allowed_missing_variables'[q] = allowed_missing_variables[q] ]_vars

\* C11: validation applies to every template however it was resolved: a
\* referenced variable that is in none of the caller's arguments, the
\* defaults and the allowed-missing set makes the call fail with the
\* missing-variables error, and no prompt is rendered.
C11_EveryTemplateValidated ==
    ( /\ last.op \in {"fit", "generate_prompt"}
      /\ last.error # "TemplateNotFound"
      /\ Uncovered(last) # {} )
    => (last.error = "MissingVariables" /\ last.prompt = "")

\* C13: a cache entry is written only by a fit call whose lookup missed and
\* whose model call and normalization succeeded; its key is that call's
\* rendered prompt and its value the outputs the same call returns.
C13_EntryWrittenByReturningMiss ==
    [][ ( /\ FitStep
          /\ CacheMap(prompt_cache'[last'.p]) # CacheMap(prompt_cache[last'.p]) )
        => /\ cache_prompt[last'.p]
           /\ last'.status = "ok"
           /\ ~last'.from_cache
           /\ last'.prompt \notin CacheKeys(prompt_cache[last'.p])
           /\ last'.prompt \in CacheKeys(prompt_cache'[last'.p])
           /\ CacheValue(prompt_cache'[last'.p], last'.prompt) = last'.outputs ]_vars

\* C15: a template variable the caller did not supply, that has no default
\* and is allowed to be missing is bound to an absence marker that is
\* neither None nor the empty string.
AllowedAbsent(l) ==
    { v \in TemplateVars(l.p, l.template) :
         /\ v \notin (DOMAIN l.callkw) \cup {"text_input"}
         /\ v \notin DOMAIN Defaults(l.p)
         /\ v \in allowed_missing_variables[l.p] }

C15_AbsenceMarkerDistinct ==
    ( /\ last.op \in {"fit", "generate_prompt"}
      /\ ~GenerateFailed(last)
      /\ last.validated )
    => \A v \in AllowedAbsent(last) :
          /\ v \in DOMAIN last.variables_dict
          /\ last.variables_dict[v] # None
          /\ last.variables_dict[v] # ""

\* C16: the variable binding in the log message of a successful fit agrees
\* with the binding the renderer received: every template variable the
\* renderer was given is logged with the same value (stated here for the
\* templates whose variables are known to fit, the validated ones).
C16_LoggedBindingIsRendered ==
    (last.op = "fit" /\ last.status = "ok" /\ ~last.from_cache /\ last.validated)
    => LET m == logger[last.p][Len(logger[last.p])]
       IN  \A v \in TemplateVars(last.p, last.template) \cap DOMAIN last.context :
              /\ v \in DOMAIN m.variables
              /\ m.variables[v] = last.context[v]

\* C17: prompt generation is deterministic: a generate_prompt call with the
\* template, text_input and keyword arguments of an earlier call on the
\* same Prompter returns the prompt the earlier call returned, whatever fit
\* and generate_prompt calls were made in between, as long as the defaults
\* were not updated; with caching both address the same cache key.
C17_SamePromptAgain ==
    [][ ( /\ GenerateStep
          /\ ~GenerateFailed(last')
          /\ RequestKey(last'.template, last'.text_input, last'.callkw)
                \in DOMAIN rendered[last'.p] )
        => last'.prompt =
             rendered[last'.p][RequestKey(last'.template, last'.text_input,
                                          last'.callkw)] ]_vars

C17_Witness ==
    /\ last.op = "generate_prompt" /\ last.status = "ok"
    /\ last.again
    /\ calls = 3
    /\ fit_returned[last.p] >= 1
    /\ model_invocations[last.p] >= 1

\* C18: generate_prompt and fit leave the default variable values, the
\* allowed-missing set, the maximum completion length and the cache flag as
\* they were; update_default_variable_values sets the names it is given and
\* leaves every other default, and the rest of the configuration, as it was.
ConfigStep == calls' = calls + 1 /\ last'.op # "init"

C18_ConfigurationFrame ==
    [][ ConfigStep
        => LET p == last'.p
               before == dicts[default_variable_values[p]]
               after == dicts'[default_variable_values'[p]]
           IN  /\ allowed_missing_variables' = allowed_missing_variables
               /\ max_completion_length' = max_completion_length
               /\ cache_prompt' = cache_prompt
               /\ default_variable_values' = default_variable_values
               /\ (last'.op \in {"fit", "generate_prompt"}) => (dicts' = dicts)
               /\ (last'.op = "update_default_variable_values")
                  => /\ DOMAIN after = (DOMAIN before) \cup (DOMAIN last'.context)
                     /\ \A k \in DOMAIN after :
                           after[k] = IF k \in DOMAIN last'.context
                                      THEN last'.context[k] ELSE before[k] ]_vars

\* An update that found other defaults in place, after a fit and a
\* generate_prompt call.
C18_Witness ==
    /\ last.op = "update_default_variable_values"
    /\ calls = 3
    /\ fit_returned[last.p] >= 1
    /\ DOMAIN Defaults(last.p) # DOMAIN last.context

\* C12: within one fit call the stages come in the order model call,
\* normalization, cache store (exactly when caching is enabled), log
\* append, return; a call whose message was appended has completed its
\* model call and its normalization, nothing fails after the append, and
\* the call returns its outputs.
StageRank(stage) ==
    CASE stage = "render"    -> 1
      [] stage = "lookup"    -> 2
      [] stage = "model"     -> 3
      [] stage = "normalize" -> 4
      [] stage = "store"     -> 5
      [] stage = "log"       -> 6
      [] stage = "return"    -> 7

C12_StagesInOrder ==
    \A t \in Threads :
       LET tr == thread[t].trace
           done == SeqToSet(tr)
       IN  /\ \A i, j \in DOMAIN tr :
                i < j => StageRank(tr[i]) < StageRank(tr[j])
           /\ "log" \in done
              => /\ {"model", "normalize"} \subseteq done
                 /\ ("store" \in done) <=> cache_prompt[Shared]
                 /\ thread[t].pc \in {"return", "done"}
                 /\ thread[t].outputs # << >>
                 /\ (thread[t].pc = "done") => (thread[t].result = thread[t].outputs)

\* One call has gone through every stage with caching on while the other
\* failed at the log append after its store.
C12_Witness ==
    /\ thread["t1"].pc = "done"
    /\ thread["t1"].trace = << "render", "lookup", "model", "normalize",
                               "store", "log", "return" >>
    /\ thread["t2"].pc = "failed"
    /\ thread["t2"].trace = << "render", "lookup", "model", "normalize", "store" >>

\* C14: fit calls interleaved on one Prompter never corrupt the shared
\* cache and log: the cache never holds two entries for one prompt nor
\* more entries than its capacity, every entry pairs a prompt with the
\* output list one of the calls made for that prompt, a prompt a call has
\* stored is still there while the prompts in use fit the capacity, and
\* the log holds one message per live call that got to its return.
RECURSIVE LiveCalls(_)
LiveCalls(T) ==
    IF T = {} THEN 0
    ELSE LET t == CHOOSE u \in T : TRUE
         IN  thread[t].live_done + (IF thread[t].pc = "return" THEN 1 ELSE 0)
             + LiveCalls(T \ {t})

Made == UNION { thread[t].made : t \in Threads }

C14_SharedStateSound ==
    LET cache == prompt_cache[Shared]
    IN  /\ Cardinality(CacheKeys(cache)) = Len(cache)
        /\ Len(cache) <= CacheSize
        /\ \A i \in DOMAIN cache :
              [prompt |-> cache[i].key, outputs |-> cache[i].value] \in Made
        /\ Cardinality({ m.prompt : m \in Made }) <= CacheSize
           => \A t \in Threads :
                 "store" \in SeqToSet(thread[t].trace)
                 => thread[t].prompt \in CacheKeys(cache)
        /\ Len(logger[Shared]) = LiveCalls(Threads)

\* Both calls missed on the same prompt, both invoked the model and got
\* different outputs, and both have finished.
C14_Witness ==
    /\ cache_prompt[Shared]
    /\ \A t \in Threads :
          /\ thread[t].pc = "done"
          /\ {"lookup", "model", "store", "return"} \subseteq SeqToSet(thread[t].trace)
    /\ thread["t1"].prompt = thread["t2"].prompt
    /\ thread["t1"].outputs # thread["t2"].outputs
    /\ Len(prompt_cache[Shared]) = 1
    /\ Len(logger[Shared]) = 2
    /\ model_invocations[Shared] = 2

====
